---- MODULE Spec2Model ----
(***************************************************************************)
(* A model of the LinguaFlow translation tutor: the interactive text       *)
(* annotator (tokenizer, phrase matcher, lookup dispatcher), the AI        *)
(* service call with its retry loop, and the flashcard review queue.       *)
(*                                                                         *)
(* Strings are sequences of one-character strings, so that splitting,      *)
(* joining, lowercasing and trimming are computed as the code computes     *)
(* them.                                                                   *)
(***************************************************************************)
EXTENDS Integers, Sequences, FiniteSets, TLC

VARIABLES
    \* ---- InteractiveText.renderTextSegment (pure function under test)
    segment,          \* the text segment handed to renderTextSegment
    vocabulary,       \* the session's vocabulary list (VocabularyItem[])
    elements,         \* the rendered tokens, NotRendered before the call
    \* ---- VocabularyView (flashcard deck)
    savedWords,       \* the saved-words list the deck is given
    filter,           \* ALL | BASIC | INTER | ADV
    vmode,            \* LIST | LEARN
    studyQueue,
    currentCardIndex, \* 0-based, as in the code
    isFlipped,
    showHint,
    sessionStats,     \* [reviewed, hard]
    \* history of the running learning session (observations, not code state)
    startList,        \* the filtered list the session was started with
    initQueue,        \* the queue as startLearning set it
    gradeLog,         \* the grades given so far in this session: HARD, or PASS
                      \* for GOOD and EASY, which the code does not tell apart
    gradedCards,      \* the card each of those grades was given to
    shownLog,         \* the cards that have been the current card, in order
    \* ---- aiService and the InteractiveText lookup dispatcher
    apiKey,           \* whether localStorage holds a non-empty ds_api_key
    reqs,             \* the calls of callDeepSeek, by request number
    text,             \* InteractiveText props.text (session.text)
    selectedWord,     \* the entry the popover shows, or NoItem
    loadingWord,      \* the text being looked up, or <<>> for null
    selection,        \* the stored free-text selection, or <<>> for null
    popoverPosition,  \* whether a popover position has been set
    lookupUsage,      \* PracticeView.lookupUsage
    readOnly,         \* PracticeView props.readOnly (review mode)
    lookups,          \* the calls of lookupWordContext, in the order issued
    lastLookup,       \* the lookup that settled last: its text, its context
                      \* and how its callDeepSeek call ended (observation)
    lastSettled,      \* the lookup whose settlement was the last thing to set
                      \* the popover's entry, 0 when the user has acted on the
                      \* popover since or nothing has settled (observation)
    \* ---- App, SetupView and PracticeView
    mode,             \* SETUP | PRACTICE | REVIEW | VOCABULARY
    session,          \* the current PracticeSession, or NoSession
    history,          \* the finished sessions, newest first
    isLoading,        \* of the mounted SetupView
    translation,      \* of the mounted PracticeView
    isSubmitting,     \* of the mounted PracticeView
    result,           \* of the mounted PracticeView: an evaluation, 0 for null
    alerts,           \* the alerts shown so far
    ops,              \* the generate, analyze and evaluate operations, in the
                      \* order issued
    \* ---- localStorage and the mount of App
    storedHistory,    \* what the store holds under lf_history
    storedWords,      \* what the store holds under lf_saved_words
    mountPc,          \* how far the mount of App has got
    bootStore         \* what the store held when App was mounted (observation)

renderVars == <<segment, vocabulary, elements>>
learnVars  == <<savedWords, filter, vmode, studyQueue, currentCardIndex,
                isFlipped, showHint, sessionStats>>
learnHist  == <<startList, initQueue, gradeLog, gradedCards, shownLog>>
callVars   == <<apiKey, reqs>>
lookupVars == <<text, selectedWord, loadingWord, selection, popoverPosition, lookupUsage,
                readOnly, lookups, lastLookup, lastSettled>>
appVars    == <<mode, session, history, isLoading, translation, isSubmitting, result, alerts,
                ops>>
storeVars  == <<storedHistory, storedWords, mountPc, bootStore>>
vars == <<renderVars, learnVars, learnHist, callVars, lookupVars, appVars, storeVars>>

----------------------------------------------------------------------------
(* Characters and strings *)

LowerLetters == {"a", "b", "c"}
UpperLetters == {"A", "B", "C"}
\* the sentence terminators of findSentence, and the characters that
\* handleWordClick strips from a clicked text
Terminators  == {".", "!", "?"}
StrippedChars == {".", ",", "!", "?", ";", ":", "\"", "(", ")"}
Digits       == {"0"}
\* [a-zA-Z0-9]
AlnumChars   == LowerLetters \cup UpperLetters \cup Digits
\* [a-zA-ZÀ-ÿ0-9'-] : the word class of the split also holds the accented
\* letters, the apostrophe and the hyphen, which are not [a-zA-Z0-9]
WordChars    == AlnumChars \cup {"-", "'", "é"}
SpaceChars   == {" "}

IsWordChar(c) == c \in WordChars
IsAlnum(c)    == c \in AlnumChars

\* String.prototype.toLowerCase, one character
LowerChar(c) ==
    CASE c = "A" -> "a"
      [] c = "B" -> "b"
      [] c = "C" -> "c"
      [] OTHER   -> c

ToLowerCase(s) == [i \in 1..Len(s) |-> LowerChar(s[i])]

RECURSIVE Concat(_)
\* the concatenation of a sequence of strings
Concat(ss) == IF ss = <<>> THEN <<>> ELSE Head(ss) \o Concat(Tail(ss))

RECURSIVE JoinSpace(_)
\* Array.prototype.join(" ")
JoinSpace(parts) ==
    IF parts = <<>> THEN <<>>
    ELSE IF Len(parts) = 1 THEN parts[1]
    ELSE parts[1] \o <<" ">> \o JoinSpace(Tail(parts))

RECURSIVE TrimLeft(_)
TrimLeft(s) == IF s # <<>> /\ Head(s) \in SpaceChars THEN TrimLeft(Tail(s)) ELSE s

RECURSIVE TrimRight(_)
TrimRight(s) ==
    IF s # <<>> /\ s[Len(s)] \in SpaceChars THEN TrimRight(SubSeq(s, 1, Len(s) - 1)) ELSE s

\* String.prototype.trim
Trim(s) == TrimRight(TrimLeft(s))

\* /[a-zA-Z0-9]/.test(token)
HasAlnum(tok) == \E i \in 1..Len(tok) : IsAlnum(tok[i])

----------------------------------------------------------------------------
(* localStorage values *)

\* localStorage.getItem(key) of a key that was never set: null
NullStored == [kind |-> "null", items |-> <<>>]

\* JSON.stringify(list): a string, which is truthy also for the empty list
Stringify(list) == [kind |-> "json", items |-> list]

\* JSON.parse(stored)
Parse(stored) == stored.items

----------------------------------------------------------------------------
(* InteractiveText: vocabMap and renderTextSegment *)

\* the keys of vocabMap: item.word.toLowerCase() of every vocabulary item
VocabKeys(vocab) == {ToLowerCase(vocab[i].word) : i \in 1..Len(vocab)}

\* vocabMap.get(key): Map.set overwrites, so the last item with the key wins
VocabGet(vocab, key) ==
    LET idx == {i \in 1..Len(vocab) : ToLowerCase(vocab[i].word) = key}
        last == CHOOSE i \in idx : \A j \in idx : j <= i
    IN  vocab[last]

RECURSIVE SplitRec(_, _, _, _, _)
\* segment.split(/([a-zA-ZÀ-ÿ0-9'-]+)/g): the pieces alternate non-word run,
\* word run, ..., non-word run; the first and the last piece may be empty
SplitRec(seg, i, cur, inWord, acc) ==
    IF i > Len(seg)
    THEN IF inWord THEN acc \o <<cur, <<>>>> ELSE Append(acc, cur)
    ELSE IF IsWordChar(seg[i]) = inWord
         THEN SplitRec(seg, i + 1, Append(cur, seg[i]), inWord, acc)
         ELSE SplitRec(seg, i + 1, <<seg[i]>>, ~inWord, Append(acc, cur))

SplitTokens(seg) == SplitRec(seg, 1, <<>>, FALSE, <<>>)

\* the window lengths tried at a word, in the order of the for loop
MaxPhraseLen == 4
MinPhraseLen == 2

RECURSIVE CollectParts(_, _, _, _)
\* the while loop that gathers the next words of the window: tokens without
\* a letter or digit are skipped, and the loop also ends when the tokens do
CollectParts(tokens, parts, next, len) ==
    IF Len(parts) < len /\ next <= Len(tokens)
    THEN CollectParts(tokens,
                      IF HasAlnum(tokens[next]) THEN Append(parts, tokens[next]) ELSE parts,
                      next + 1, len)
    ELSE parts

\* (a variant that forgets toLowerCase)
PhraseStr_NoLower(tokens, i, len) == JoinSpace(CollectParts(tokens, <<tokens[i]>>, i + 1, len))

\* phraseParts.join(" ").toLowerCase() for the window of len words at token i
PhraseStr(tokens, i, len) == ToLowerCase(JoinSpace(CollectParts(tokens, <<tokens[i]>>, i + 1, len)))

RECURSIVE DisplayRec_WordsOnly(_, _, _, _, _)
\* (a variant that leaves out of displayStr what lies between the words)
DisplayRec_WordsOnly(tokens, tempIdx, wordsFound, len, displayStr) ==
    IF wordsFound < len /\ tempIdx <= Len(tokens)
    THEN DisplayRec_WordsOnly(tokens, tempIdx + 1,
                    IF HasAlnum(tokens[tempIdx]) THEN wordsFound + 1 ELSE wordsFound,
                    len,
                    IF HasAlnum(tokens[tempIdx]) THEN displayStr \o tokens[tempIdx]
                    ELSE displayStr)
    ELSE [str |-> displayStr, next |-> tempIdx]

RECURSIVE DisplayRec(_, _, _, _, _)
\* the loop that builds displayStr; gives the string and tempIdx (1-based)
DisplayRec(tokens, tempIdx, wordsFound, len, displayStr) ==
    IF wordsFound < len /\ tempIdx <= Len(tokens)
    THEN DisplayRec(tokens, tempIdx + 1,
                    IF HasAlnum(tokens[tempIdx]) THEN wordsFound + 1 ELSE wordsFound,
                    len, displayStr \o tokens[tempIdx])
    ELSE [str |-> displayStr, next |-> tempIdx]

\* the window lengths, longest first, whose phrase string is a vocabMap key
MatchingLens(tokens, i, keys) ==
    {len \in MinPhraseLen..MaxPhraseLen : PhraseStr(tokens, i, len) \in keys}

\* (a variant that tries the shortest window first)
MatchLen_Shortest(tokens, i, keys) ==
    LET m == MatchingLens(tokens, i, keys)
    IN  IF m = {} THEN 0 ELSE CHOOSE len \in m : \A other \in m : len <= other

\* for (let len = 4; len >= 2; len--) ... break : the first, so the largest
MatchLen(tokens, i, keys) ==
    LET m == MatchingLens(tokens, i, keys)
    IN  IF m = {} THEN 0 ELSE CHOOSE len \in m : \A other \in m : other <= len

RECURSIVE RenderRec(_, _, _)
\* the for loop of renderTextSegment from token i on. An element records the
\* span's class (plain, punct, phrase, word), what it shows, what a click on
\* it hands to handleWordClick, and the tokens it covers.
RenderRec(tokens, i, keys) ==
    IF i > Len(tokens) THEN <<>>
    ELSE LET token == tokens[i] IN
         IF Trim(token) = <<>>
         THEN <<[kind |-> "plain", text |-> token, click |-> <<>>, isVocab |-> FALSE,
                 first |-> i, last |-> i]>> \o RenderRec(tokens, i + 1, keys)
         ELSE IF ~HasAlnum(token)
         THEN <<[kind |-> "punct", text |-> token, click |-> <<>>, isVocab |-> FALSE,
                 first |-> i, last |-> i]>> \o RenderRec(tokens, i + 1, keys)
         ELSE LET len == MatchLen(tokens, i, keys) IN
              IF len # 0
              THEN LET d == DisplayRec(tokens, i, 0, len, <<>>) IN
                   <<[kind |-> "phrase", text |-> d.str, click |-> PhraseStr(tokens, i, len),
                      isVocab |-> TRUE, first |-> i, last |-> d.next - 1]>>
                   \o RenderRec(tokens, d.next, keys)
              ELSE <<[kind |-> "word", text |-> token, click |-> token,
                      isVocab |-> ToLowerCase(token) \in keys,
                      first |-> i, last |-> i]>> \o RenderRec(tokens, i + 1, keys)

renderTextSegment(seg, vocab) == RenderRec(SplitTokens(seg), 1, VocabKeys(vocab))

----------------------------------------------------------------------------
(* VocabularyView: the flashcard deck and its review queue *)

Card(w, t, c) == [word |-> w, translation |-> t, cefr |-> c]

\* the search box state is never set by the view (no input calls
\* setSearchTerm), so it keeps its initial value ''
searchTerm == <<>>

\* s.includes(t)
Includes(s, t) ==
    \E i \in 0..(Len(s) - Len(t)) : \A k \in 1..Len(t) : s[i + k] = t[k]

FilterLevels(f) ==
    CASE f = "BASIC" -> {"A1", "A2"}
      [] f = "INTER" -> {"B1", "B2"}
      [] f = "ADV"   -> {"C1", "C2"}
      [] OTHER       -> {}

\* the filteredWords memo
filteredWords ==
    LET byLevel == IF filter = "ALL" THEN savedWords
                   ELSE SelectSeq(savedWords, LAMBDA w : w.cefr \in FilterLevels(filter))
    IN  IF searchTerm # <<>>
        THEN SelectSeq(byLevel, LAMBDA w :
                 \/ Includes(ToLowerCase(w.word), ToLowerCase(searchTerm))
                 \/ Includes(ToLowerCase(w.translation), ToLowerCase(searchTerm)))
        ELSE byLevel

\* the orders a sort of the list with some comparator can leave it in
Reorderings(list) ==
    {[i \in 1..Len(list) |-> list[p[i]]] :
        p \in {q \in [1..Len(list) -> 1..Len(list)] : \A i, j \in 1..Len(list) : q[i] = q[j] => i = j}}

\* (a variant that fills the queue with copies of the first card)
Shuffled_Copies(list) == {[i \in 1..Len(list) |-> list[1]]}

\* [...filteredWords].sort(() => Math.random() - 0.5)
Shuffled(list) == Reorderings(list)

\* const isFinished = currentCardIndex >= studyQueue.length
isFinished == currentCardIndex >= Len(studyQueue)

\* (a variant that leaves the card face as it is)
FlipAfter_Kept(newIndex) == isFlipped

\* the useEffect on [currentCardIndex]: it runs, and resets the card face
\* and the hint, only when the index has changed
FlipAfter(newIndex) == IF newIndex # currentCardIndex THEN FALSE ELSE isFlipped
HintAfter(newIndex) == IF newIndex # currentCardIndex THEN FALSE ELSE showHint

\* the filter buttons of the list view
SetFilter(f) ==
    /\ vmode = "LIST"
    /\ filter' = f
    /\ UNCHANGED <<savedWords, storedWords, vmode, studyQueue, currentCardIndex, isFlipped, showHint,
                   sessionStats, learnHist>>

\* the remove button of a listed card: App.handleRemoveSavedWord, and the
\* effect that saves the changed list
RemoveSaved(w) ==
    /\ vmode = "LIST"
    /\ \E i \in 1..Len(filteredWords) : filteredWords[i].word = w
    /\ savedWords' = SelectSeq(savedWords, LAMBDA x : x.word # w)
    /\ storedWords' = Stringify(savedWords')
    /\ UNCHANGED <<filter, vmode, studyQueue, currentCardIndex, isFlipped, showHint,
                   sessionStats, learnHist>>

startLearning ==
    /\ vmode = "LIST"
    /\ Len(filteredWords) # 0
    /\ \E shuffled \in Shuffled(filteredWords) :
          /\ studyQueue' = shuffled
          /\ initQueue' = shuffled
          /\ shownLog' = <<shuffled[1]>>
    /\ currentCardIndex' = 0
    /\ sessionStats' = [reviewed |-> 0, hard |-> 0]
    /\ vmode' = "LEARN"
    /\ isFlipped' = FlipAfter(0)
    /\ showHint' = HintAfter(0)
    /\ startList' = filteredWords
    /\ gradeLog' = <<>>
    /\ gradedCards' = <<>>
    /\ UNCHANGED <<savedWords, storedWords, filter>>

\* HARD can be given for ever: in a run it is given among the first
\* MaxGrades grades of a session only
MaxGrades == 3

\* (variants: requeue on every grade; requeue at the front; requeue twice)
QueueAfterGrade_Always(difficulty, queue, currentCard) == Append(queue, currentCard)
QueueAfterGrade_Front(difficulty, queue, currentCard) ==
    IF difficulty = "HARD" THEN <<currentCard>> \o queue ELSE queue
QueueAfterGrade_Twice(difficulty, queue, currentCard) ==
    IF difficulty = "HARD" THEN queue \o <<currentCard, currentCard>> ELSE queue

\* setStudyQueue(prev => [...prev, currentCard]) for HARD, nothing otherwise
QueueAfterGrade(difficulty, queue, currentCard) ==
    IF difficulty = "HARD" THEN Append(queue, currentCard) ELSE queue

\* (a variant that counts a HARD grade twice)
StatsAfterGrade_HardTwice(difficulty, stats) ==
    [reviewed |-> stats.reviewed + 1,
     hard     |-> IF difficulty = "HARD" THEN stats.hard + 2 ELSE stats.hard]

\* (a variant that counts the reviews only)
StatsAfterGrade_ReviewedOnly(difficulty, stats) ==
    [reviewed |-> stats.reviewed + 1, hard |-> stats.hard]

\* the two setSessionStats updaters
StatsAfterGrade(difficulty, stats) ==
    [reviewed |-> stats.reviewed + 1,
     hard     |-> IF difficulty = "HARD" THEN stats.hard + 1 ELSE stats.hard]

\* (variants: GOOD and EASY skip a card; HARD stays on the card)
IndexAfterGrade_PassSkips(difficulty, index) ==
    IF difficulty = "HARD" THEN index + 1 ELSE index + 2
IndexAfterGrade_HardStays(difficulty, index) ==
    IF difficulty = "HARD" THEN index ELSE index + 1

\* setCurrentCardIndex(prev => prev + 1), in both branches
IndexAfterGrade(difficulty, index) == index + 1

\* the grade buttons are rendered in LEARN mode while the session is not finished
handleGrade(difficulty) ==
    /\ vmode = "LEARN"
    /\ ~isFinished
    /\ difficulty = "HARD" => Len(gradeLog) < MaxGrades
    /\ LET currentCard == studyQueue[currentCardIndex + 1]
           queue == QueueAfterGrade(difficulty, studyQueue, currentCard)
           index == IndexAfterGrade(difficulty, currentCardIndex)
       IN  /\ studyQueue' = queue
           /\ sessionStats' = StatsAfterGrade(difficulty, sessionStats)
           /\ currentCardIndex' = index
           /\ isFlipped' = FlipAfter(index)
           /\ showHint' = HintAfter(index)
           /\ gradeLog' = Append(gradeLog, IF difficulty = "HARD" THEN "HARD" ELSE "PASS")
           /\ gradedCards' = Append(gradedCards, currentCard)
           /\ shownLog' = IF index < Len(queue) THEN Append(shownLog, queue[index + 1])
                          ELSE shownLog
    /\ UNCHANGED <<savedWords, storedWords, filter, vmode, startList, initQueue>>

\* a click on the front face shows the back, a click on the back the front
FlipCard ==
    /\ vmode = "LEARN"
    /\ ~isFinished
    /\ isFlipped' = ~isFlipped
    /\ UNCHANGED <<savedWords, storedWords, filter, vmode, studyQueue, currentCardIndex, showHint,
                   sessionStats, learnHist>>

\* the Show Meaning / Hide Meaning button
ToggleHint ==
    /\ vmode = "LEARN"
    /\ ~isFinished
    /\ showHint' = ~showHint
    /\ UNCHANGED <<savedWords, storedWords, filter, vmode, studyQueue, currentCardIndex, isFlipped,
                   sessionStats, learnHist>>

\* End Session, and Back to Deck on the finished screen: setMode('LIST')
EndSession ==
    /\ vmode = "LEARN"
    /\ vmode' = "LIST"
    /\ UNCHANGED <<savedWords, storedWords, filter, studyQueue, currentCardIndex, isFlipped, showHint,
                   sessionStats, learnHist>>

Grades == {"HARD", "GOOD", "EASY"}
Filters == {"ALL", "BASIC", "INTER", "ADV"}

MaxCards == 3

CardPool ==
    { Card(<<"a">>, <<"c">>, "A1"), Card(<<"B">>, <<"c">>, "C1") }

RECURSIVE DecksOf(_)
DecksOf(n) ==
    IF n = 0 THEN {<<>>} ELSE {Append(d, c) : d \in DecksOf(n - 1), c \in CardPool}

Decks == UNION {DecksOf(n) : n \in 0..MaxCards}

LearnInit ==
    /\ savedWords \in Decks
    /\ filter = "ALL"
    /\ vmode = "LIST"
    /\ studyQueue = <<>>
    /\ currentCardIndex = 0
    /\ isFlipped = FALSE
    /\ showHint = FALSE
    /\ sessionStats = [reviewed |-> 0, hard |-> 0]
    /\ startList = <<>>
    /\ initQueue = <<>>
    /\ gradeLog = <<>>
    /\ gradedCards = <<>>
    /\ shownLog = <<>>

NextLearn ==
    /\ \/ \E f \in Filters : SetFilter(f)
       \/ \E c \in CardPool : RemoveSaved(c.word)
       \/ startLearning
       \/ \E d \in Grades : handleGrade(d)
       \/ FlipCard
       \/ ToggleHint
       \/ EndSession
    /\ UNCHANGED <<renderVars, callVars, lookupVars, appVars, storedHistory, mountPc, bootStore>>

----------------------------------------------------------------------------
(* aiService.callDeepSeek: one HTTP call with its retry loop *)

\* callDeepSeek(systemContent, userContent, retries = 3)
Retries == 3
\* await wait(2000)
RetryDelayMs == 2000

\* What one HTTP attempt can come to:
\*   netfail     fetch threw (no response)
\*   busy        a response with status 429 or >= 500
\*   httperr     a response that is not ok, with another status
\*   badpayload  an ok response whose body or content cannot be read or parsed
\*   ok          an ok response with parseable content
\* msgMatch says whether the message of the error thrown for it includes
\* 'fetch' or 'network': the browser's wording of a failed fetch, the message
\* the service put in its error body, the parser's quote of the payload. It
\* plays no part for busy and ok.
Outcomes ==
    [kind : {"netfail", "httperr", "badpayload"}, msgMatch : BOOLEAN]
    \cup [kind : {"busy", "ok"}, msgMatch : {FALSE}]

NoOutcome == [kind |-> "none", msgMatch |-> FALSE]

\* a call that has not been made
IdleCall ==
    [pc |-> "idle", retryCount |-> 0, attempts |-> 0, delays |-> <<>>, last |-> NoOutcome]

\* the first lines of callDeepSeek: without a key it throws before any fetch,
\* with one it runs attempt(retries)
CallStarted(hasKey) ==
    IF hasKey
    THEN [pc |-> "fetching", retryCount |-> Retries, attempts |-> 1, delays |-> <<>>,
          last |-> NoOutcome]
    ELSE [pc |-> "rejected", retryCount |-> Retries, attempts |-> 0, delays |-> <<>>,
          last |-> NoOutcome]

\* whether attempt(retryCount) goes on to another attempt after the outcome.
\* The 429/5xx branch retries while retryCount > 0. Every error thrown inside
\* the try lands in the catch: the one fetch threw, the one built from the
\* error body of a response that is not ok, the one the parser threw. The
\* catch retries while retryCount > 0 when the message includes 'fetch' or
\* 'network'.
RetriesAfter(c, o) ==
    \/ o.kind = "busy" /\ c.retryCount > 0
    \/ o.kind \in {"netfail", "httperr", "badpayload"} /\ c.retryCount > 0 /\ o.msgMatch

\* (a variant whose waits grow)
DelayBefore_Growing(c) == RetryDelayMs * c.attempts

\* the wait before the retry that follows attempt number c.attempts
DelayBefore(c) == RetryDelayMs

\* the call after the outcome of its running attempt
AfterOutcome(c, o) ==
    IF o.kind = "ok" THEN [c EXCEPT !.pc = "resolved", !.last = o]
    ELSE IF RetriesAfter(c, o)
    THEN [c EXCEPT !.pc = "waiting", !.last = o, !.delays = Append(@, DelayBefore(c))]
    ELSE [c EXCEPT !.pc = "rejected", !.last = o]

\* return attempt(retryCount - 1), once the wait is over
AfterWait(c) ==
    [c EXCEPT !.pc = "fetching", !.retryCount = @ - 1, !.attempts = @ + 1]

Settled(c) == c.pc \in {"resolved", "rejected"}
InFlight(c) == c.pc \in {"fetching", "waiting"}

\* the calls of a run
MaxReqs == 2
ReqIds == 1..MaxReqs

\* SettingsModal.handleSave is reached from the setup screen only; callers
\* run with what the store holds
CallInit ==
    /\ apiKey \in BOOLEAN
    /\ reqs = [r \in ReqIds |-> IdleCall]

CallIdle ==
    /\ apiKey = FALSE
    /\ reqs = [r \in ReqIds |-> IdleCall]

\* a caller calls callDeepSeek
StartCall(r) ==
    /\ reqs[r].pc = "idle"
    /\ reqs' = [reqs EXCEPT ![r] = CallStarted(apiKey)]
    /\ UNCHANGED apiKey

\* the running attempt of call r comes to an outcome
CallOutcome(r, o) ==
    /\ reqs[r].pc = "fetching"
    /\ reqs' = [reqs EXCEPT ![r] = AfterOutcome(reqs[r], o)]
    /\ UNCHANGED apiKey

\* the timer of wait(2000) fires
RetryTimer(r) ==
    /\ reqs[r].pc = "waiting"
    /\ reqs' = [reqs EXCEPT ![r] = AfterWait(reqs[r])]
    /\ UNCHANGED apiKey

----------------------------------------------------------------------------
(* InteractiveText: the lookup dispatcher *)

\* selectedWord = null
NoItem == [word |-> <<>>, definition |-> "null", type |-> "null", context |-> <<>>]

RECURSIVE SentRec(_, _)
\* fullText.match(/[^.!?]+[.!?]+/g) from position i on: a match is a longest
\* run of other characters followed by a longest run of terminators; a
\* terminator with no text before it starts no match, and text that no
\* terminator follows matches nothing
SentRec(t, i) ==
    IF i > Len(t) THEN <<>>
    ELSE IF t[i] \in Terminators THEN SentRec(t, i + 1)
    ELSE LET stops == {j \in i..Len(t) : t[j] \in Terminators} IN
         IF stops = {} THEN <<>>
         ELSE LET j == CHOOSE x \in stops : \A y \in stops : x <= y
                  after == {k \in j..Len(t) : t[k] \notin Terminators}
                  k == IF after = {} THEN Len(t) + 1
                       ELSE CHOOSE x \in after : \A y \in after : x <= y
              IN  <<SubSeq(t, i, k - 1)>> \o SentRec(t, k)

\* ... || [fullText]
Sentences(fullText) ==
    LET m == SentRec(fullText, 1) IN IF m = <<>> THEN <<fullText>> ELSE m

\* findSentence(fullText, targetWord): the first sentence that includes the
\* target, both lowercased, trimmed; "" when there is none
findSentence(fullText, targetWord) ==
    LET sentences == Sentences(fullText)
        hits == {i \in 1..Len(sentences) :
                    Includes(ToLowerCase(sentences[i]), ToLowerCase(targetWord))}
    IN  IF hits = {} THEN <<>>
        ELSE Trim(sentences[CHOOSE i \in hits : \A j \in hits : i <= j])

\* .replace(/[.,!?;:"()]+/g, '')
StripPunct(s) == SelectSeq(s, LAMBDA ch : ch \notin StrippedChars)

\* clickedText.trim().replace(/[.,!?;:"()]+/g, '').toLowerCase()
CleanText(clickedText) == ToLowerCase(StripPunct(Trim(clickedText)))

\* (a variant that always sets the sentence found in the text)
CachedItem_Computed(cached, currentContext) ==
    [cached EXCEPT !.context = currentContext]

\* { ...cached, context: cached.context || currentContext }
CachedItem(cached, currentContext) ==
    [cached EXCEPT !.context = IF @ # <<>> THEN @ ELSE currentContext]

\* { ...result, context: currentContext } of lookupWordContext's
\* { ...result.content, word, usage }: the service's fields under the clicked text
ResultItem(clickedText, currentContext) ==
    [word |-> clickedText, definition |-> "looked up", type |-> "Noun",
     context |-> currentContext]

\* (a variant that names the placeholder by the cleaned text)
FallbackItem_Cleaned(clickedText, currentContext) ==
    [word |-> CleanText(clickedText), definition |-> "Unable to translate. Check connection.",
     type |-> "Unknown", context |-> currentContext]

\* the placeholder of the catch
FallbackItem(clickedText, currentContext) ==
    [word |-> clickedText, definition |-> "Unable to translate. Check connection.",
     type |-> "Unknown", context |-> currentContext]

RECURSIVE CallClosure(_)
\* the calls that attempts and waits lead to from the calls of S
CallClosure(S) ==
    LET next == S \cup {AfterOutcome(c, o) : c \in {x \in S : x.pc = "fetching"}, o \in Outcomes}
                  \cup {AfterWait(c) : c \in {x \in S : x.pc = "waiting"}}
    IN  IF next = S THEN S ELSE CallClosure(next)

\* the ways a call made with a key can have gone when its promise settles
FinalCalls == {c \in CallClosure({CallStarted(TRUE)}) : Settled(c)}

\* what a caller sees of a settled call: resolved or rejected, and on what
CallEnd(c) == [pc |-> c.pc, cause |-> c.last.kind]
CallEnds == {CallEnd(c) : c \in FinalCalls}

\* the lookups of a run
MaxLookups == 2
LookupIds == 1..MaxLookups

\* { promptTokens: 0, responseTokens: 0, totalTokens: 0 }
ZeroUsage == [promptTokens |-> 0, responseTokens |-> 0, totalTokens |-> 0]

\* the sum handleTokenUpdate computes, field by field
AddUsage(prev, usage) ==
    [promptTokens   |-> prev.promptTokens + usage.promptTokens,
     responseTokens |-> prev.responseTokens + usage.responseTokens,
     totalTokens    |-> prev.totalTokens + usage.totalTokens]

\* the usage of one response: absent counts read as 0
Usages == {ZeroUsage, [promptTokens |-> 1, responseTokens |-> 2, totalTokens |-> 3]}

\* a lookup that has not been issued
IdleLookup == [pc |-> "idle", word |-> <<>>, context |-> <<>>]

\* a lookup whose response has been handled
DoneLookup == [pc |-> "done", word |-> <<>>, context |-> <<>>]

\* no lookup has settled
NoLookup == [word |-> <<>>, context |-> <<>>, end |-> CallEnd(IdleCall), usage |-> ZeroUsage]

\* the number the next lookup gets, 0 when the run has used them up
NextLookup ==
    LET free == {l \in LookupIds : lookups[l].pc = "idle"}
    IN  IF free = {} THEN 0 ELSE CHOOSE l \in free : \A m \in free : l <= m

\* (a variant that drops the response of a lookup that is no longer the one
\* the popover is loading)
SelectedAfterSettle_IfCurrent(current, loading, lk, c) ==
    IF loading # lk.word THEN current
    ELSE IF c.pc = "resolved" THEN ResultItem(lk.word, lk.context)
    ELSE FallbackItem(lk.word, lk.context)

\* the try and the catch of handleWordClick once lookupWordContext has
\* settled: setSelectedWord(resultWithContext), or the placeholder
SelectedAfterSettle(current, loading, lk, c) ==
    IF c.pc = "resolved" THEN ResultItem(lk.word, lk.context)
    ELSE FallbackItem(lk.word, lk.context)

\* finally { setLoadingWord(null) }
LoadingAfterSettle(loading, c) == <<>>

\* if (onTokenUsage) onTokenUsage(result.usage), after a lookup that
\* succeeded: handleTokenUpdate, which InteractiveText is given unless readOnly
UsageAfterSettle(prev, ro, c, u) ==
    IF c.pc = "resolved" /\ ~ro THEN AddUsage(prev, u) ELSE prev

\* handleWordClick(clickedText, event, isManual), to its first await or to
\* its end. Without a key lookupWordContext rejects before any fetch, and the
\* catch and the finally run before any other event is handled.
handleWordClick(clickedText) ==
    LET cleanText == CleanText(clickedText)
        currentContext == findSentence(text, clickedText)
        lk == [pc |-> "pending", word |-> clickedText, context |-> currentContext]
    IN  /\ popoverPosition' = TRUE
        /\ IF cleanText \in VocabKeys(vocabulary)
           THEN /\ selectedWord' = CachedItem(VocabGet(vocabulary, cleanText), currentContext)
                /\ lastSettled' = 0
                /\ UNCHANGED <<loadingWord, lookups, lastLookup>>
           ELSE /\ NextLookup # 0
                /\ IF apiKey
                   THEN /\ loadingWord' = clickedText
                        /\ selectedWord' = NoItem
                        /\ lookups' = [lookups EXCEPT ![NextLookup] = lk]
                        /\ lastSettled' = 0
                        /\ UNCHANGED lastLookup
                   ELSE /\ selectedWord' = SelectedAfterSettle(NoItem, clickedText, lk,
                                                               CallEnd(CallStarted(FALSE)))
                        /\ loadingWord' = LoadingAfterSettle(clickedText, CallEnd(CallStarted(FALSE)))
                        /\ lookups' = [lookups EXCEPT ![NextLookup] = DoneLookup]
                        /\ lastLookup' = [word |-> clickedText, context |-> currentContext,
                                          end |-> CallEnd(CallStarted(FALSE)),
                                          usage |-> ZeroUsage]
                        /\ lastSettled' = NextLookup
        /\ UNCHANGED <<text, lookupUsage, readOnly>>

\* what a click on a vocabulary or word span hands to handleWordClick
ClickTexts == {elements[i].click : i \in {j \in 1..Len(elements) : elements[j].kind \in {"phrase", "word"}}}

\* a click on a span of the text. The mouseup before it runs handleMouseUp,
\* which drops the stored selection unless text is still selected.
ClickToken(clickedText, collapsed) ==
    /\ clickedText \in ClickTexts
    /\ selection' = IF collapsed THEN <<>> ELSE selection
    /\ handleWordClick(clickedText)

\* the texts a selection inside the container is tried with: the text from
\* the start of a later word to the end
SelectionsOf(t) ==
    {Trim(SubSeq(t, i, Len(t))) : i \in {j \in 2..Len(t) : t[j - 1] \in SpaceChars}} \ {<<>>}

\* handleSelectionChange with a selection that is not collapsed
SelectText(s) ==
    /\ s \in SelectionsOf(text)
    /\ selection' = s
    /\ selectedWord' = NoItem
    /\ lastSettled' = 0
    /\ UNCHANGED <<text, loadingWord, popoverPosition, lookupUsage, readOnly, lookups, lastLookup>>

\* handleMouseUp after a press inside the container or the popover, with
\* nothing selected
MouseUp ==
    /\ selection' = <<>>
    /\ UNCHANGED <<text, selectedWord, loadingWord, popoverPosition, lookupUsage, readOnly,
                   lookups, lastLookup, lastSettled>>

\* handleClickOutside for a press outside the container and the popups, and
\* the mouseup after it
ClickOutside ==
    /\ selectedWord' = NoItem
    /\ selection' = <<>>
    /\ lastSettled' = 0
    /\ UNCHANGED <<text, loadingWord, popoverPosition, lookupUsage, readOnly, lookups, lastLookup>>

\* handleManualTranslate, from the Translate button shown while selection is set
ManualTranslate ==
    /\ selection # <<>>
    /\ selection' = <<>>
    /\ handleWordClick(selection)

\* the X of the popover, shown with an entry when nothing is loading
ClosePopover ==
    /\ selectedWord # NoItem /\ loadingWord = <<>> /\ popoverPosition
    /\ selectedWord' = NoItem
    /\ selection' = <<>>
    /\ lastSettled' = 0
    /\ UNCHANGED <<text, loadingWord, popoverPosition, lookupUsage, readOnly, lookups, lastLookup>>

\* the promise of lookupWordContext of lookup l settles, its call having
\* ended as c with usage u, and handleWordClick runs on from its await
LookupSettles(l, c, u) ==
    /\ lookups[l].pc = "pending"
    /\ selectedWord' = SelectedAfterSettle(selectedWord, loadingWord, lookups[l], c)
    /\ loadingWord' = LoadingAfterSettle(loadingWord, c)
    /\ lookupUsage' = UsageAfterSettle(lookupUsage, readOnly, c, u)
    /\ lookups' = [lookups EXCEPT ![l] = DoneLookup]
    /\ lastLookup' = [word |-> lookups[l].word, context |-> lookups[l].context, end |-> c,
                      usage |-> IF c.pc = "resolved" THEN u ELSE ZeroUsage]
    /\ lastSettled' = l
    /\ UNCHANGED <<text, selection, popoverPosition, readOnly>>

\* PracticeView is unmounted, and InteractiveText with it: their state is
\* gone, and the setters that a late response calls change nothing
UnmountText ==
    /\ selectedWord' = NoItem
    /\ loadingWord' = <<>>
    /\ selection' = <<>>
    /\ popoverPosition' = FALSE
    /\ lookups' = [l \in LookupIds |-> IF lookups[l].pc = "pending" THEN DoneLookup
                                        ELSE lookups[l]]
    /\ lastLookup' = NoLookup
    /\ lastSettled' = 0
    /\ UNCHANGED <<text, readOnly>>

LookupIdle ==
    /\ text = <<>>
    /\ selectedWord = NoItem
    /\ loadingWord = <<>>
    /\ selection = <<>>
    /\ popoverPosition = FALSE
    /\ lookupUsage = ZeroUsage
    /\ readOnly = FALSE
    /\ lookups = [l \in LookupIds |-> IdleLookup]
    /\ lastLookup = NoLookup
    /\ lastSettled = 0

----------------------------------------------------------------------------
(* App, SetupView and PracticeView: sessions and the operations that start
   and evaluate them *)

\* session = null
NoSession == [id |-> 0, userTranslation |-> <<>>, evaluation |-> 0, lookupUsage |-> ZeroUsage]

\* (a variant of startSession that sets no session)
NewSession_None(o) == NoSession

\* the session startSession sets: the operation's number stands for
\* Date.now().toString(); userTranslation and evaluation are not set
NewSession(o) == [id |-> o, userTranslation |-> <<>>, evaluation |-> 0, lookupUsage |-> ZeroUsage]

\* the operations of a run
MaxOps == 2
OpIds == 1..MaxOps

\* an operation that has not been issued; live tells whether the component
\* that awaits a pending operation is still mounted, translation is the text
\* handleSubmit called evaluateFullTranslation with
IdleOp == [pc |-> "idle", kind |-> "none", live |-> FALSE, translation |-> <<>>]

NextOp ==
    LET free == {o \in OpIds : ops[o].pc = "idle"}
    IN  IF free = {} THEN 0 ELSE CHOOSE o \in free : \A m \in free : o <= m

SetupKinds == {"generate", "analyze"}

\* {(mode === PRACTICE || mode === REVIEW) && session && <PracticeView .../>}
PracticeMounted(m, s) == m \in {"PRACTICE", "REVIEW"} /\ s # NoSession

\* the operations once the components awaiting those of the kinds are unmounted
Orphaned(kinds) ==
    [o \in OpIds |-> IF ops[o].kind \in kinds THEN [ops[o] EXCEPT !.live = FALSE] ELSE ops[o]]

\* what the text area is tried with
Translations == {<<>>, <<" ">>, <<"a">>, <<"b">>}

\* (a variant that clears the busy flag on success only)
BusyAfterSettle_SuccessOnly(flag, live, end) ==
    IF live /\ end.pc = "resolved" THEN FALSE ELSE flag

\* finally { setIsLoading(false) } and finally { setIsSubmitting(false) }: a
\* state setter of an unmounted component changes nothing
BusyAfterSettle(flag, live, end) == IF live THEN FALSE ELSE flag

\* catch (error) { alert(error.message || ...) }
AlertsAfterSettle(n, live, end) == IF end.pc = "rejected" THEN n + 1 ELSE n

\* setSavedWords(prev => exists ? prev.filter(...) : [...prev, word]), where
\* exists is prev.some(w => w.word === word.word)
ToggledWords(prev, word) ==
    IF \E i \in 1..Len(prev) : prev[i].word = word.word
    THEN SelectSeq(prev, LAMBDA w : w.word # word.word)
    ELSE Append(prev, word)

\* setSavedWords(prev => [word, ...prev])
AddedWords(prev, word) == <<word>> \o prev

\* setSavedWords(prev => prev.filter(w => w.word !== wordStr))
RemovedWords(prev, wordStr) == SelectSeq(prev, LAMBDA w : w.word # wordStr)

\* setHistory(prev => [finishedSession, ...prev])
HistoryAfterFinish(prev, finishedSession) == <<finishedSession>> \o prev

\* setHistory(prev => prev.filter(s => s.id !== sessionId)), when confirmed
HistoryAfterDelete(prev, sessionId, confirmed) ==
    IF confirmed THEN SelectSeq(prev, LAMBDA h : h.id # sessionId) ELSE prev

\* (a variant of the load effect that leaves the lists as they are)
LoadedList_Ignored(stored, current) == current

\* if (stored) setList(JSON.parse(stored))
LoadedList(stored, current) == IF stored.kind = "json" THEN Parse(stored) ELSE current

\* the caps on the lengths of the two lists in a run
MaxSaved == 3
MaxHistory == 2

\* The mount of App. The first render has the empty lists; its effects run
\* in the order they are declared: the load, the save of history, the save
\* of the saved words; the two saves write what the first render had. The
\* lists set by the load are rendered next, and the saves run again for the
\* lists that were set.
MountLoad ==
    /\ mountPc = "rendered"
    /\ history' = LoadedList(storedHistory, history)
    /\ savedWords' = LoadedList(storedWords, savedWords)
    /\ mountPc' = "loaded"
    /\ UNCHANGED <<storedHistory, storedWords, bootStore>>

MountSaveHistory ==
    /\ mountPc = "loaded"
    /\ storedHistory' = Stringify(<<>>)
    /\ mountPc' = "savedHistory"
    /\ UNCHANGED <<history, savedWords, storedWords, bootStore>>

MountSaveWords ==
    /\ mountPc = "savedHistory"
    /\ storedWords' = Stringify(<<>>)
    /\ mountPc' = "savedWords"
    /\ UNCHANGED <<history, savedWords, storedHistory, bootStore>>

MountRerender ==
    /\ mountPc = "savedWords"
    /\ storedHistory' = IF bootStore.history.kind = "json" THEN Stringify(history)
                        ELSE storedHistory
    /\ storedWords' = IF bootStore.words.kind = "json" THEN Stringify(savedWords)
                      ELSE storedWords
    /\ mountPc' = "mounted"
    /\ UNCHANGED <<history, savedWords, bootStore>>

\* the handlers of App that change the lists, each with the effect that
\* saves the changed list
handleToggleSaveWord(word) ==
    /\ mountPc = "mounted"
    /\ Len(ToggledWords(savedWords, word)) <= MaxSaved
    /\ savedWords' = ToggledWords(savedWords, word)
    /\ storedWords' = Stringify(savedWords')
    /\ UNCHANGED <<history, storedHistory, mountPc, bootStore>>

\* VocabularyView.handleAddSubmit, for a card with a word and a translation
handleAddManualWord(word) ==
    /\ mountPc = "mounted"
    /\ word.word # <<>> /\ word.translation # <<>>
    /\ Len(savedWords) < MaxSaved
    /\ savedWords' = AddedWords(savedWords, word)
    /\ storedWords' = Stringify(savedWords')
    /\ UNCHANGED <<history, storedHistory, mountPc, bootStore>>

handleRemoveSavedWord(wordStr) ==
    /\ mountPc = "mounted"
    /\ \E i \in 1..Len(savedWords) : savedWords[i].word = wordStr
    /\ savedWords' = RemovedWords(savedWords, wordStr)
    /\ storedWords' = Stringify(savedWords')
    /\ UNCHANGED <<history, storedHistory, mountPc, bootStore>>

handleFinishSession(finishedSession) ==
    /\ mountPc = "mounted"
    /\ Len(history) < MaxHistory
    /\ history' = HistoryAfterFinish(history, finishedSession)
    /\ storedHistory' = Stringify(history')
    /\ UNCHANGED <<savedWords, storedWords, mountPc, bootStore>>

handleDeleteSession(sessionId, confirmed) ==
    /\ mountPc = "mounted"
    /\ \E i \in 1..Len(history) : history[i].id = sessionId
    /\ history' = HistoryAfterDelete(history, sessionId, confirmed)
    /\ storedHistory' = IF confirmed THEN Stringify(history') ELSE storedHistory
    /\ UNCHANGED <<savedWords, storedWords, mountPc, bootStore>>

\* handleAiGenerate and handleCustomStart, from their buttons, which are
\* disabled while isLoading. Without a key the call rejects before any
\* fetch, and the catch and the finally run before any other event.
StartSetupOp(kind) ==
    /\ mode = "SETUP" /\ ~isLoading /\ NextOp # 0
    /\ IF apiKey
       THEN /\ isLoading' = TRUE
            /\ ops' = [ops EXCEPT ![NextOp] = [pc |-> "pending", kind |-> kind, live |-> TRUE,
                                              translation |-> <<>>]]
            /\ UNCHANGED alerts
       ELSE /\ isLoading' = BusyAfterSettle(TRUE, TRUE, CallEnd(CallStarted(FALSE)))
            /\ alerts' = AlertsAfterSettle(alerts, TRUE, CallEnd(CallStarted(FALSE)))
            /\ ops' = [ops EXCEPT ![NextOp] = [pc |-> "rejected", kind |-> kind, live |-> FALSE,
                                              translation |-> <<>>]]
    /\ UNCHANGED <<apiKey, mode, session, history, translation, isSubmitting, result>>
    /\ UNCHANGED <<storedHistory, savedWords, storedWords, lookupUsage>>

\* SettingsModal.handleSave, from the setup screen
SaveSettings(hasKey) ==
    /\ mode = "SETUP"
    /\ apiKey' = hasKey
    /\ UNCHANGED appVars
    /\ UNCHANGED <<storedHistory, savedWords, storedWords, lookupUsage>>

\* onOpenVocabulary: SetupView is unmounted
OpenVocabulary ==
    /\ mode = "SETUP"
    /\ mode' = "VOCABULARY"
    /\ isLoading' = FALSE
    /\ ops' = Orphaned(SetupKinds)
    /\ UNCHANGED <<apiKey, session, history, translation, isSubmitting, result, alerts>>
    /\ UNCHANGED <<storedHistory, savedWords, storedWords, lookupUsage>>

\* VocabularyView's onExit: a new SetupView is mounted
ExitVocabulary ==
    /\ mode = "VOCABULARY"
    /\ mode' = "SETUP"
    /\ UNCHANGED <<apiKey, session, history, isLoading, translation, isSubmitting, result,
                   alerts, ops>>
    /\ UNCHANGED <<storedHistory, savedWords, storedWords, lookupUsage>>

\* handleReviewSession(history[i]): PracticeView is mounted read-only on it
ReviewSession(i) ==
    /\ mode = "SETUP" /\ i \in 1..Len(history)
    /\ session' = history[i]
    /\ mode' = "REVIEW"
    /\ isLoading' = FALSE
    /\ ops' = Orphaned(SetupKinds)
    /\ translation' = history[i].userTranslation
    /\ result' = history[i].evaluation
    /\ isSubmitting' = FALSE
    /\ lookupUsage' = history[i].lookupUsage
    /\ UNCHANGED <<apiKey, history, alerts>>
    /\ UNCHANGED <<storedHistory, savedWords, storedWords>>

\* the delete button of a history row: handleDeleteSession(history[i].id),
\* with the answer given to window.confirm
DeleteSession(i, confirmed) ==
    /\ mode = "SETUP" /\ i \in 1..Len(history)
    /\ handleDeleteSession(history[i].id, confirmed)
    /\ UNCHANGED <<apiKey, mode, session, isLoading, translation, isSubmitting, result, alerts,
                   ops, lookupUsage>>

\* (a variant that keeps the writing mode on screen beside a result)
WritingModeShown_WithResult(r, ro) == ~ro

\* {(!result && !readOnly) && (...)}: the text area and Submit & Check
WritingModeShown(r, ro) == r = 0 /\ ~ro

\* the text area, disabled while isSubmitting
TypeTranslation(t) ==
    /\ PracticeMounted(mode, session) /\ WritingModeShown(result, mode = "REVIEW")
    /\ ~isSubmitting
    /\ translation # t
    /\ translation' = t
    /\ UNCHANGED <<apiKey, mode, session, history, isLoading, isSubmitting, result, alerts, ops>>
    /\ UNCHANGED <<storedHistory, savedWords, storedWords, lookupUsage>>

\* handleSubmit, from its button
handleSubmit ==
    /\ PracticeMounted(mode, session) /\ WritingModeShown(result, mode = "REVIEW")
    /\ ~isSubmitting
    /\ Trim(translation) # <<>>
    /\ NextOp # 0
    /\ IF apiKey
       THEN /\ isSubmitting' = TRUE
            /\ ops' = [ops EXCEPT ![NextOp] =
                          [pc |-> "pending", kind |-> "evaluate", live |-> TRUE,
                           translation |-> translation]]
            /\ UNCHANGED alerts
       ELSE /\ isSubmitting' = BusyAfterSettle(TRUE, TRUE, CallEnd(CallStarted(FALSE)))
            /\ alerts' = AlertsAfterSettle(alerts, TRUE, CallEnd(CallStarted(FALSE)))
            /\ ops' = [ops EXCEPT ![NextOp] =
                          [pc |-> "rejected", kind |-> "evaluate", live |-> FALSE,
                           translation |-> translation]]
    /\ UNCHANGED <<apiKey, mode, session, history, isLoading, translation, result>>
    /\ UNCHANGED <<storedHistory, savedWords, storedWords, lookupUsage>>

\* the Retry button of the result
Retry ==
    /\ mode = "PRACTICE" /\ session # NoSession /\ result # 0
    /\ result' = 0
    /\ UNCHANGED <<apiKey, mode, session, history, isLoading, translation, isSubmitting, alerts,
                   ops>>
    /\ UNCHANGED <<storedHistory, savedWords, storedWords, lookupUsage>>

\* handleExitPractice: PracticeView is unmounted, a new SetupView is mounted
ExitEffects ==
    /\ mode' = "SETUP"
    /\ session' = NoSession
    /\ translation' = <<>>
    /\ isSubmitting' = FALSE
    /\ result' = 0
    /\ ops' = Orphaned({"evaluate"})
    /\ lookupUsage' = ZeroUsage
    /\ UNCHANGED <<apiKey, isLoading, alerts>>

\* the back arrow, and Back to Home of a review
ExitPractice ==
    /\ PracticeMounted(mode, session)
    /\ ExitEffects
    /\ UNCHANGED <<history, storedHistory, savedWords, storedWords>>

\* (a variant that hands the session on without the evaluation)
FinishedSession_NoEvaluation(s, t, r, u) ==
    [s EXCEPT !.userTranslation = t, !.lookupUsage = u]

\* {...session, userTranslation: translation, evaluation: result, lookupUsage, ...}
FinishedSession(s, t, r, u) ==
    [s EXCEPT !.userTranslation = t, !.evaluation = r, !.lookupUsage = u]

\* handleFinish, from Finish & Save of the result: onFinishSession of the
\* finished session, then onExit()
handleFinish ==
    /\ mode = "PRACTICE" /\ session # NoSession /\ result # 0
    /\ handleFinishSession(FinishedSession(session, translation, result, lookupUsage))
    /\ ExitEffects

\* the promise of generatePracticeContent or analyzeCustomText of operation o
\* settles and the handler runs on: onStart, which is App's startSession, or
\* the alert. A PracticeView that is mounted already stays mounted and keeps
\* its state.
SetupOpSettles(o, end) ==
    /\ ops[o].pc = "pending" /\ ops[o].kind \in SetupKinds
    /\ alerts' = AlertsAfterSettle(alerts, ops[o].live, end)
    /\ IF end.pc = "resolved"
       THEN /\ session' = NewSession(o)
            /\ mode' = "PRACTICE"
            /\ isLoading' = FALSE
            /\ ops' = [Orphaned(SetupKinds) EXCEPT
                          ![o] = [ops[o] EXCEPT !.pc = "resolved", !.live = FALSE]]
            /\ IF PracticeMounted(mode, session)
               THEN UNCHANGED <<translation, isSubmitting, result, lookupUsage>>
               ELSE /\ translation' = <<>> /\ isSubmitting' = FALSE /\ result' = 0
                    /\ lookupUsage' = NewSession(o).lookupUsage
       ELSE /\ isLoading' = BusyAfterSettle(isLoading, ops[o].live, end)
            /\ ops' = [ops EXCEPT ![o] = [ops[o] EXCEPT !.pc = "rejected", !.live = FALSE]]
            /\ UNCHANGED <<mode, session, translation, isSubmitting, result, lookupUsage>>
    /\ UNCHANGED <<apiKey, history>>
    /\ UNCHANGED <<storedHistory, savedWords, storedWords>>

\* the promise of evaluateFullTranslation of operation o settles and
\* handleSubmit runs on: setResult, or the alert
EvaluateSettles(o, end) ==
    /\ ops[o].pc = "pending" /\ ops[o].kind = "evaluate"
    /\ alerts' = AlertsAfterSettle(alerts, ops[o].live, end)
    /\ result' = IF end.pc = "resolved" /\ ops[o].live THEN o ELSE result
    /\ isSubmitting' = BusyAfterSettle(isSubmitting, ops[o].live, end)
    /\ ops' = [ops EXCEPT ![o] = [ops[o] EXCEPT !.pc = end.pc, !.live = FALSE]]
    /\ UNCHANGED <<apiKey, mode, session, history, isLoading, translation>>
    /\ UNCHANGED <<storedHistory, savedWords, storedWords, lookupUsage>>

\* the save button of a vocabulary row or of the popover of a mounted
\* PracticeView: onToggleSave(word)
ToggleSave(word) ==
    /\ PracticeMounted(mode, session)
    /\ handleToggleSaveWord(word)
    /\ UNCHANGED <<apiKey, mode, session, isLoading, translation, isSubmitting, result, alerts,
                   ops, lookupUsage>>

\* a lookup of the mounted PracticeView settles, its call having ended as
\* end with usage u; readOnly is mode === AppMode.REVIEW
TokenUpdate(end, u) ==
    /\ PracticeMounted(mode, session)
    /\ lookupUsage.promptTokens < MaxLookups
    /\ lookupUsage' = UsageAfterSettle(lookupUsage, mode = "REVIEW", end, u)
    /\ UNCHANGED <<apiKey, mode, session, history, isLoading, translation, isSubmitting, result,
                   alerts, ops, storedHistory, savedWords, storedWords>>

AppIdle ==
    /\ mode = "SETUP"
    /\ session = NoSession
    /\ history = <<>>
    /\ isLoading = FALSE
    /\ translation = <<>>
    /\ isSubmitting = FALSE
    /\ result = 0
    /\ alerts = 0
    /\ ops = [o \in OpIds |-> IdleOp]

\* App is mounted and the store holds the lists as they are
StoreMounted ==
    /\ mountPc = "mounted"
    /\ storedHistory = Stringify(history)
    /\ storedWords = Stringify(savedWords)
    /\ bootStore = [history |-> storedHistory, words |-> storedWords]

----------------------------------------------------------------------------
(* The inputs the annotator is exercised on *)

MaxWords == 4

VItem(w, ctx) == [word |-> w, definition |-> "cached", type |-> "Noun", context |-> ctx]

SegWords == {<<"a">>, <<"b">>, <<"A">>}
SegSeps  == {<<" ">>, <<",", " ">>}
Trails   == {<<>>, <<".">>, <<" ", "-">>}

RECURSIVE SegsOf(_)
\* the strings of exactly k words, each two joined by one separator
SegsOf(k) ==
    IF k = 0 THEN {<<>>}
    ELSE IF k = 1 THEN SegWords
    ELSE {s \o sep \o w : s \in SegsOf(k - 1), sep \in SegSeps, w \in SegWords}

Segments == UNION {{s \o t : s \in SegsOf(k), t \in Trails} : k \in 0..MaxWords}

Vocabularies ==
    { <<VItem(<<"a", " ", "b">>, <<>>)>>,
      <<VItem(<<"a", " ", "b">>, <<>>), VItem(<<"b", " ", "a">>, <<>>)>>,
      <<VItem(<<"a", " ", "b">>, <<>>), VItem(<<"a", " ", "b", " ", "a">>, <<>>)>>,
      <<VItem(<<"a", " ", "b", " ", "a", " ", "b">>, <<>>), VItem(<<"b">>, <<>>)>>,
      <<VItem(<<"A", " ", "b">>, <<>>), VItem(<<"a">>, <<>>)>> }

\* split gives at least one piece, so a render is never empty
NotRendered == <<>>

RenderInit ==
    /\ segment \in Segments
    /\ vocabulary \in Vocabularies
    /\ elements = NotRendered

\* the render of one segment: segments.map(renderTextSegment)
Render ==
    /\ elements = NotRendered
    /\ elements' = renderTextSegment(segment, vocabulary)
    /\ UNCHANGED <<segment, vocabulary>>

RenderIdle ==
    /\ segment = <<>>
    /\ vocabulary = <<>>
    /\ elements = NotRendered

LearnIdle ==
    /\ savedWords = <<>>
    /\ filter = "ALL"
    /\ vmode = "LIST"
    /\ studyQueue = <<>>
    /\ currentCardIndex = 0
    /\ isFlipped = FALSE
    /\ showHint = FALSE
    /\ sessionStats = [reviewed |-> 0, hard |-> 0]
    /\ startList = <<>>
    /\ initQueue = <<>>
    /\ gradeLog = <<>>
    /\ gradedCards = <<>>
    /\ shownLog = <<>>

InitRender == RenderInit /\ LearnIdle /\ CallIdle /\ LookupIdle /\ AppIdle /\ StoreMounted

NextRender == Render /\ UNCHANGED <<learnVars, learnHist, callVars, lookupVars, appVars, storeVars>>

SpecRender == InitRender /\ [][NextRender]_vars

InitLearn == LearnInit /\ RenderIdle /\ CallIdle /\ LookupIdle /\ AppIdle /\ StoreMounted

SpecLearn == InitLearn /\ [][NextLearn]_vars

\* the learner keeps grading, and from some grade on gives no HARD: a GOOD
\* or EASY grade that stays possible is given
FairLearn ==
    WF_vars((\E d \in Grades \ {"HARD"} : handleGrade(d))
            /\ UNCHANGED <<renderVars, callVars, lookupVars, appVars, storedHistory, mountPc,
                           bootStore>>)

SpecLearnFair == InitLearn /\ [][NextLearn]_vars /\ FairLearn

InitCall == CallInit /\ RenderIdle /\ LearnIdle /\ LookupIdle /\ AppIdle /\ StoreMounted

NextCall ==
    /\ \/ \E r \in ReqIds : StartCall(r)
       \/ \E r \in ReqIds : \E o \in Outcomes : CallOutcome(r, o)
       \/ \E r \in ReqIds : RetryTimer(r)
    /\ UNCHANGED <<renderVars, learnVars, learnHist, lookupVars, appVars, storeVars>>

\* a fetch settles and a timer fires: every attempt comes to an outcome and
\* every wait ends
FairCall ==
    \A r \in ReqIds :
        /\ WF_vars((\E o \in Outcomes : CallOutcome(r, o))
                   /\ UNCHANGED <<renderVars, learnVars, learnHist, lookupVars, appVars, storeVars>>)
        /\ WF_vars(RetryTimer(r)
                   /\ UNCHANGED <<renderVars, learnVars, learnHist, lookupVars, appVars, storeVars>>)

SpecCall == InitCall /\ [][NextCall]_vars

SpecCallFair == InitCall /\ [][NextCall]_vars /\ FairCall

LookupTexts ==
    { <<"a", " ", "b", ".", " ", "C">>,
      <<"C", " ", "a", "!", " ", "b", ".">> }

LookupVocabularies ==
    { <<VItem(<<"a", " ", "b">>, <<>>)>>,
      <<VItem(<<"c">>, <<"C", ".">>)>> }

\* a mounted InteractiveText over a one-paragraph text, before any event on
\* it, in a PracticeView that shows the evaluation of its translation or, in
\* a review, that of the session reviewed
InitLookup ==
    /\ text \in LookupTexts
    /\ vocabulary \in LookupVocabularies
    /\ segment = text
    /\ elements = renderTextSegment(text, vocabulary)
    /\ apiKey \in BOOLEAN
    /\ reqs = [r \in ReqIds |-> IdleCall]
    /\ readOnly \in BOOLEAN
    /\ selectedWord = NoItem
    /\ loadingWord = <<>>
    /\ selection = <<>>
    /\ popoverPosition = FALSE
    /\ lookupUsage = ZeroUsage
    /\ lookups = [l \in LookupIds |-> IdleLookup]
    /\ lastLookup = NoLookup
    /\ lastSettled = 0
    /\ LearnIdle
    /\ mode = IF readOnly THEN "REVIEW" ELSE "PRACTICE"
    /\ session = IF readOnly THEN FinishedSession(NewSession(1), <<"a">>, 1, ZeroUsage)
                 ELSE NewSession(1)
    /\ history = IF readOnly THEN <<session>> ELSE <<>>
    /\ isLoading = FALSE
    /\ translation = <<"a">>
    /\ isSubmitting = FALSE
    /\ result = 1
    /\ alerts = 0
    /\ ops = [o \in OpIds |-> IdleOp]
    /\ StoreMounted

NextLookupStep ==
    \/ /\ PracticeMounted(mode, session)
       /\ \/ \E w \in ClickTexts : \E collapsed \in BOOLEAN : ClickToken(w, collapsed)
          \/ \E s \in SelectionsOf(text) : SelectText(s)
          \/ MouseUp
          \/ ClickOutside
          \/ ManualTranslate
          \/ ClosePopover
          \/ \E l \in LookupIds : \E c \in CallEnds : \E u \in Usages : LookupSettles(l, c, u)
       /\ UNCHANGED <<renderVars, learnVars, learnHist, callVars, appVars, storeVars>>
    \/ /\ handleFinish
       /\ UnmountText
       /\ UNCHANGED <<reqs, renderVars, learnHist, filter, vmode, studyQueue, currentCardIndex,
                      isFlipped, showHint, sessionStats>>

SpecLookup == InitLookup /\ [][NextLookupStep]_vars

\* the application after its mount, with or without a stored key
InitApp ==
    /\ apiKey \in BOOLEAN
    /\ reqs = [r \in ReqIds |-> IdleCall]
    /\ AppIdle
    /\ RenderIdle /\ LearnIdle /\ LookupIdle
    /\ StoreMounted

NextApp ==
    /\ \/ \E kind \in SetupKinds : StartSetupOp(kind)
       \/ \E hasKey \in BOOLEAN : SaveSettings(hasKey)
       \/ OpenVocabulary
       \/ ExitVocabulary
       \/ \E i \in 1..Len(history) : ReviewSession(i)
       \/ \E i \in 1..Len(history) : \E confirmed \in BOOLEAN : DeleteSession(i, confirmed)
       \/ \E t \in Translations : TypeTranslation(t)
       \/ handleSubmit
       \/ Retry
       \/ ExitPractice
       \/ handleFinish
       \/ \E o \in OpIds : \E end \in CallEnds : SetupOpSettles(o, end)
       \/ \E o \in OpIds : \E end \in CallEnds : EvaluateSettles(o, end)
       \/ \E word \in CardPool : ToggleSave(word)
       \/ \E end \in CallEnds : \E u \in Usages : TokenUpdate(end, u)
    /\ UNCHANGED <<reqs, renderVars, learnHist, filter, vmode, studyQueue, currentCardIndex,
                   isFlipped, showHint, sessionStats, text, selectedWord, loadingWord,
                   selection, popoverPosition, readOnly, lookups, lastLookup, lastSettled,
                   mountPc, bootStore>>

SpecApp == InitApp /\ [][NextApp]_vars

\* a PracticeView just mounted on a session that startSession has set, with
\* or without a stored key
InitPractice ==
    /\ apiKey \in BOOLEAN
    /\ reqs = [r \in ReqIds |-> IdleCall]
    /\ RenderIdle /\ LearnIdle /\ LookupIdle
    /\ mode = "PRACTICE"
    /\ session = NewSession(1)
    /\ history = <<>>
    /\ isLoading = FALSE
    /\ translation = <<>>
    /\ isSubmitting = FALSE
    /\ result = 0
    /\ alerts = 0
    /\ ops = [o \in OpIds |-> IdleOp]
    /\ StoreMounted

\* the events of one PracticeView, to its exit
NextPractice ==
    /\ \/ \E t \in Translations : TypeTranslation(t)
       \/ handleSubmit
       \/ Retry
       \/ \E o \in OpIds : \E end \in CallEnds : EvaluateSettles(o, end)
       \/ ExitPractice
       \/ handleFinish
    /\ UNCHANGED <<reqs, renderVars, learnHist, filter, vmode, studyQueue, currentCardIndex,
                   isFlipped, showHint, sessionStats, text, selectedWord, loadingWord,
                   selection, popoverPosition, readOnly, lookups, lastLookup, lastSettled,
                   mountPc, bootStore>>

SpecPractice == InitPractice /\ [][NextPractice]_vars

\* the cards saved, added and removed in a run
WordPool == CardPool \cup {Card(<<"A">>, <<"c">>, "A1")}

\* the finished sessions of a run
FinishedSessions ==
    {[NewSession(o) EXCEPT !.userTranslation = <<"a">>, !.evaluation = o] : o \in OpIds}

\* what the store can hold when App is mounted: nothing, or lists the app
\* wrote, which hold no two cards of one word
BootHistories ==
    {NullStored, Stringify(<<>>)} \cup {Stringify(<<f>>) : f \in FinishedSessions}
BootWords ==
    {NullStored, Stringify(<<>>)} \cup {Stringify(<<c>>) : c \in CardPool}

InitStore ==
    /\ RenderIdle /\ LearnIdle /\ CallIdle /\ LookupIdle /\ AppIdle
    /\ bootStore \in [history : BootHistories, words : BootWords]
    /\ storedHistory = bootStore.history
    /\ storedWords = bootStore.words
    /\ mountPc = "rendered"

NextStore ==
    /\ \/ MountLoad
       \/ MountSaveHistory
       \/ MountSaveWords
       \/ MountRerender
       \/ \E word \in WordPool : handleToggleSaveWord(word)
       \/ \E word \in WordPool : handleAddManualWord(word)
       \/ \E word \in WordPool : handleRemoveSavedWord(word.word)
       \/ \E f \in FinishedSessions : handleFinishSession(f)
       \/ \E f \in FinishedSessions : \E confirmed \in BOOLEAN :
              handleDeleteSession(f.id, confirmed)
    /\ UNCHANGED <<renderVars, learnHist, callVars, lookupVars, filter, vmode, studyQueue,
                   currentCardIndex, isFlipped, showHint, sessionStats, mode, session,
                   isLoading, translation, isSubmitting, result, alerts, ops>>

SpecStore == InitStore /\ [][NextStore]_vars

----------------------------------------------------------------------------
(* Claims about renderTextSegment *)

\* the tokens of a split that are words (hold a letter or digit), in order
WordToks(tokens) == {i \in 1..Len(tokens) : HasAlnum(tokens[i])}
NumWords(tokens) == Cardinality(WordToks(tokens))
NthWordTok(tokens, j) ==
    CHOOSE i \in WordToks(tokens) : Cardinality({x \in WordToks(tokens) : x <= i}) = j

\* the words of a phrase, lowercased
PhraseWords(p) ==
    LET t == SplitTokens(p)
    IN  [j \in 1..NumWords(t) |-> ToLowerCase(t[NthWordTok(t, j)])]

\* the phrase occurs at the j-th word of the segment: its words are the next
\* words of the segment, whatever their case and whatever lies between them
OccursAt(tokens, pw, j) ==
    /\ j + Len(pw) - 1 <= NumWords(tokens)
    /\ \A m \in 1..Len(pw) : ToLowerCase(tokens[NthWordTok(tokens, j + m - 1)]) = pw[m]

\* the occurrence is shown as one phrase token, none of its words on its own
AsOnePhrase(tokens, pw, j) ==
    /\ \E n \in 1..Len(elements) :
          /\ elements[n].kind = "phrase"
          /\ \A m \in 1..Len(pw) :
                NthWordTok(tokens, j + m - 1) \in elements[n].first..elements[n].last
    /\ \A m \in 1..Len(pw) : \A n \in 1..Len(elements) :
          elements[n].kind = "word" => elements[n].first # NthWordTok(tokens, j + m - 1)

\* the j-th word is where an element starts: no earlier match has consumed it
ScanStart(tokens, j) ==
    \E n \in 1..Len(elements) : elements[n].first = NthWordTok(tokens, j)

\* C1 as stated: every multi-word phrase of the vocabulary that occurs in the
\* segment, ignoring case and what lies between its words, is rendered as one
\* phrase token and none of its words as a single-word token.
C1_AsStated ==
    elements # NotRendered =>
        LET tokens == SplitTokens(segment) IN
        \A v \in 1..Len(vocabulary) :
            LET pw == PhraseWords(vocabulary[v].word) IN
            Len(pw) >= 2 =>
                \A j \in 1..NumWords(tokens) :
                    OccursAt(tokens, pw, j) => AsOnePhrase(tokens, pw, j)

\* C1 amended: a vocabulary phrase of 2 to 4 words written with single spaces
\* between its words, occurring at a word that no earlier match has consumed,
\* is rendered inside one phrase token (its own, or that of a longer phrase
\* starting at the same word) and none of its words as a single-word token.
C1_PhraseAtScanStart ==
    elements # NotRendered =>
        LET tokens == SplitTokens(segment) IN
        \A v \in 1..Len(vocabulary) :
            LET pw == PhraseWords(vocabulary[v].word) IN
            (/\ Len(pw) \in MinPhraseLen..MaxPhraseLen
             /\ ToLowerCase(vocabulary[v].word) = JoinSpace(pw)) =>
                \A j \in 1..NumWords(tokens) :
                    (OccursAt(tokens, pw, j) /\ ScanStart(tokens, j))
                        => AsOnePhrase(tokens, pw, j)

\* a rendered segment where a phrase matched across a comma and in another case
C1_Witness ==
    /\ elements # NotRendered
    /\ \E n \in 1..Len(elements) :
          /\ elements[n].kind = "phrase"
          /\ \E i \in 1..Len(elements[n].text) : elements[n].text[i] = ","
          /\ \E i \in 1..Len(elements[n].text) : elements[n].text[i] = "A"
          /\ \E v \in 1..Len(vocabulary) :
                ToLowerCase(vocabulary[v].word) = elements[n].click

\* C21: the elements cover the tokens of the split one after the other, each
\* token in exactly one element, so no word consumed by a match is emitted
\* again or starts another match; a phrase element is the match of the
\* longest window at its first word whose words, lowercased and joined by
\* single spaces, are a key of the index; and a word is emitted on its own
\* only when no window at it is a key.
C21_LongestWindowWinsAndCursorAdvances ==
    elements # NotRendered =>
        LET tokens == SplitTokens(segment)
            keys == VocabKeys(vocabulary)
        IN  /\ elements[1].first = 1
            /\ elements[Len(elements)].last = Len(tokens)
            /\ \A n \in 1..Len(elements) : elements[n].first <= elements[n].last
            /\ \A n \in 1..(Len(elements) - 1) : elements[n + 1].first = elements[n].last + 1
            /\ \A n \in 1..Len(elements) :
                   /\ elements[n].kind = "phrase" =>
                          \E len \in MinPhraseLen..MaxPhraseLen :
                              /\ elements[n].click = PhraseStr(tokens, elements[n].first, len)
                              /\ elements[n].click \in keys
                              /\ \A longer \in (len + 1)..MaxPhraseLen :
                                     PhraseStr(tokens, elements[n].first, longer) \notin keys
                   /\ elements[n].kind = "word" =>
                          \A len \in MinPhraseLen..MaxPhraseLen :
                              PhraseStr(tokens, elements[n].first, len) \notin keys

\* a segment of four words whose first three are a phrase of the index, the
\* first two being a phrase of the index as well: the longer one is emitted
C21_Witness ==
    /\ elements # NotRendered
    /\ NumWords(SplitTokens(segment)) = 4
    /\ {<<"a", " ", "b">>, <<"a", " ", "b", " ", "a">>} \subseteq VocabKeys(vocabulary)
    /\ \E n \in 1..Len(elements) :
          /\ elements[n].kind = "phrase"
          /\ elements[n].click = <<"a", " ", "b", " ", "a">>
          /\ PhraseStr(SplitTokens(segment), elements[n].first, MinPhraseLen) = <<"a", " ", "b">>

\* the words among the tokens an element covers, and the last of them
WordsIn(tokens, e) == {i \in e.first..e.last : HasAlnum(tokens[i])}
LastWordIn(tokens, e) ==
    CHOOSE i \in WordsIn(tokens, e) : \A j \in WordsIn(tokens, e) : j <= i

\* C22: every phrase element spans 2 to 4 words and shows the source from
\* its first word through its last word and nothing after it; every run of
\* other characters that is not between the words of a phrase, the
\* punctuation after the last word included, is emitted as it is in an
\* element of its own that is not highlighted.
C22_PhraseSpansItsWordsOnly ==
    elements # NotRendered =>
        LET tokens == SplitTokens(segment) IN
        /\ \A n \in 1..Len(elements) :
               elements[n].kind = "phrase" =>
                   /\ HasAlnum(tokens[elements[n].first])
                   /\ Cardinality(WordsIn(tokens, elements[n]))
                          \in MinPhraseLen..MaxPhraseLen
                   /\ elements[n].text =
                          Concat(SubSeq(tokens, elements[n].first,
                                        LastWordIn(tokens, elements[n])))
        /\ \A i \in 1..Len(tokens) :
               ( /\ ~HasAlnum(tokens[i]) /\ tokens[i] # <<>>
                 /\ ~\E n \in 1..Len(elements) :
                        /\ elements[n].kind = "phrase"
                        /\ elements[n].first < i
                        /\ i < LastWordIn(tokens, elements[n]) )
               => \E n \in 1..Len(elements) :
                      /\ elements[n].kind \in {"plain", "punct"}
                      /\ elements[n].first = i /\ elements[n].last = i
                      /\ elements[n].text = tokens[i]

\* C25: the texts of the elements, put together in order, are the segment.
C25_ElementsSpellTheSegment ==
    elements # NotRendered =>
        Concat([n \in 1..Len(elements) |-> elements[n].text]) = segment

\* a rendered segment with a phrase matched across a comma, a word on its
\* own after it and punctuation at its end
C25_Witness ==
    /\ elements # NotRendered
    /\ Len(segment) >= 7
    /\ \E n \in 1..Len(elements) :
          /\ elements[n].kind = "phrase"
          /\ \E i \in 1..Len(elements[n].text) : elements[n].text[i] = ","
    /\ \E n \in 1..Len(elements) : elements[n].kind = "word"
    /\ elements[Len(elements)].kind = "punct"

----------------------------------------------------------------------------
(* Claims about the flashcard review queue *)

CountIn(list, c) == Cardinality({i \in 1..Len(list) : list[i] = c})

\* the same cards, each as many times
SameCards(a, b) ==
    /\ Len(a) = Len(b)
    /\ \A i \in 1..Len(a) : CountIn(a, a[i]) = CountIn(b, a[i])

SessionStarted == initQueue # <<>>
AllPass == \A i \in 1..Len(gradeLog) : gradeLog[i] # "HARD"
HardThenPass ==
    /\ gradeLog # <<>>
    /\ gradeLog[1] = "HARD"
    /\ \A i \in 2..Len(gradeLog) : gradeLog[i] # "HARD"

\* C2: in a session over N cards with every grade so far GOOD or EASY, the
\* session is finished exactly when N grades have been given, and then
\* reviewed = N and hard = 0; the queue keeps its length N throughout.
C2_AllPassFinishesInN ==
    (SessionStarted /\ AllPass) =>
        LET N == Len(startList) IN
        /\ Len(gradeLog) <= N
        /\ isFinished <=> Len(gradeLog) = N
        /\ Len(studyQueue) = N
        /\ sessionStats.hard = 0
        /\ isFinished => sessionStats.reviewed = N

C2_Witness ==
    /\ SessionStarted /\ AllPass /\ isFinished
    /\ Len(startList) >= 2
    /\ Len(gradeLog) = Len(startList)

\* C3: in a session over N cards with the first grade HARD and every later
\* grade GOOD or EASY, the session is finished exactly when N+1 grades have
\* been given, and then reviewed = N+1, hard = 1, and the cards that have been
\* current are the initial queue in order followed by its first card again
\* (the first card twice, first and last, every other queue entry once).
C3_HardFirstFinishesInNPlus1 ==
    (SessionStarted /\ HardThenPass) =>
        LET N == Len(startList) IN
        /\ Len(gradeLog) <= N + 1
        /\ isFinished <=> Len(gradeLog) = N + 1
        /\ isFinished =>
              /\ sessionStats = [reviewed |-> N + 1, hard |-> 1]
              /\ shownLog = initQueue \o <<initQueue[1]>>

C3_Witness ==
    /\ SessionStarted /\ HardThenPass /\ isFinished
    /\ Len(startList) >= 2
    /\ initQueue[1] # initQueue[2]

\* C4: every startLearning step (the deck list is left for a session) sets
\* the queue to a reordering of the filtered list, the index to 0 and both
\* counters to 0, whatever the state before it.
C4_StartLearningResets ==
    [][(vmode = "LIST" /\ vmode' = "LEARN") =>
          /\ Len(filteredWords) > 0
          /\ SameCards(studyQueue', filteredWords)
          /\ currentCardIndex' = 0
          /\ sessionStats' = [reviewed |-> 0, hard |-> 0]]_vars

\* a session freshly started over two different cards, in another order
\* than the list's
C4_Witness ==
    /\ vmode = "LEARN" /\ gradeLog = <<>> /\ currentCardIndex = 0
    /\ Len(startList) >= 2
    /\ studyQueue # startList
    /\ SameCards(studyQueue, startList)

\* the HARD grades given so far to card c
HardGrades(c) ==
    Cardinality({i \in 1..Len(gradeLog) : gradeLog[i] = "HARD" /\ gradedCards[i] = c})

\* C6: every card is in the queue as often as in the initial queue plus the
\* number of HARD grades it has been given.
C6_RequeuePerHard ==
    \A c \in CardPool : CountIn(studyQueue, c) = CountIn(initQueue, c) + HardGrades(c)

\* a card graded HARD twice, so three times in the queue
C6_Witness ==
    \E c \in CardPool :
        /\ HardGrades(c) = 2
        /\ CountIn(initQueue, c) = 1
        /\ CountIn(studyQueue, c) = 3

\* a grade step, and the grade given in it
GradeStep == Len(gradeLog') = Len(gradeLog) + 1
HardStep == GradeStep /\ gradeLog'[Len(gradeLog')] = "HARD"
PassStep == GradeStep /\ gradeLog'[Len(gradeLog')] = "PASS"

\* C15: a HARD grade puts the card that was current at the end of the queue,
\* which grows by one entry and keeps its earlier entries in their order, adds
\* one to reviewed and one to hard, and moves the index on by one.
C15_HardRequeuesAtEnd ==
    [][ HardStep =>
          /\ Len(studyQueue') = Len(studyQueue) + 1
          /\ \A k \in 1..Len(studyQueue) : studyQueue'[k] = studyQueue[k]
          /\ studyQueue'[Len(studyQueue')] = studyQueue[currentCardIndex + 1]
          /\ sessionStats'.reviewed = sessionStats.reviewed + 1
          /\ sessionStats'.hard = sessionStats.hard + 1
          /\ currentCardIndex' = currentCardIndex + 1 ]_vars

\* the second card of a queue of two different cards has been graded HARD
C15_Witness ==
    /\ vmode = "LEARN"
    /\ Len(initQueue) = 2 /\ initQueue[1] # initQueue[2]
    /\ gradeLog = <<"PASS", "HARD">>
    /\ studyQueue = Append(initQueue, initQueue[2])
    /\ sessionStats = [reviewed |-> 2, hard |-> 1]
    /\ currentCardIndex = 2

\* C16: a GOOD or EASY grade adds one to reviewed, moves the index on by one
\* and leaves the queue and the hard counter as they are; what a grade of
\* GOOD and a grade of EASY do to the queue, the counters and the index is
\* the same in every state of a session.
C16_PassOnlyAdvances ==
    /\ [][ PassStep =>
              /\ sessionStats'.reviewed = sessionStats.reviewed + 1
              /\ currentCardIndex' = currentCardIndex + 1
              /\ studyQueue' = studyQueue
              /\ sessionStats'.hard = sessionStats.hard ]_vars
    /\ [](vmode = "LEARN" /\ ~isFinished =>
              LET currentCard == studyQueue[currentCardIndex + 1] IN
              /\ QueueAfterGrade("GOOD", studyQueue, currentCard)
                     = QueueAfterGrade("EASY", studyQueue, currentCard)
              /\ StatsAfterGrade("GOOD", sessionStats) = StatsAfterGrade("EASY", sessionStats)
              /\ IndexAfterGrade("GOOD", currentCardIndex)
                     = IndexAfterGrade("EASY", currentCardIndex))

\* a session of two cards after a HARD grade and a GOOD or EASY grade
C16_Witness ==
    /\ vmode = "LEARN"
    /\ Len(initQueue) = 2
    /\ gradeLog = <<"HARD", "PASS">>
    /\ Len(studyQueue) = 3
    /\ sessionStats = [reviewed |-> 2, hard |-> 1]
    /\ currentCardIndex = 2

\* queue.length - index
Remaining == Len(studyQueue) - currentCardIndex

\* C17: within a session the number of remaining cards never grows: a HARD
\* grade leaves it as it is, a GOOD or EASY grade takes one off, no other step
\* of the session changes it. A learner who keeps grading, with HARD given
\* finitely often, comes to the finished screen unless the session is left
\* before; on the finished screen no grade is given and the queue, the index
\* and the counters stay as they are.
C17_SessionTerminates ==
    /\ [][ (vmode = "LEARN" /\ vmode' = "LEARN") =>
              /\ Remaining' <= Remaining
              /\ HardStep => Remaining' = Remaining
              /\ PassStep => Remaining' = Remaining - 1
              /\ ~GradeStep => Remaining' = Remaining
              /\ isFinished =>
                    /\ ~GradeStep
                    /\ UNCHANGED <<studyQueue, currentCardIndex, sessionStats>> ]_vars
    /\ [](vmode = "LEARN" => <>(isFinished \/ vmode = "LIST"))

\* a session of three cards finished after two HARD grades
C17_Witness ==
    /\ vmode = "LEARN" /\ isFinished
    /\ Len(initQueue) = 3
    /\ sessionStats = [reviewed |-> 5, hard |-> 2]
    /\ Remaining = 0

\* C18: every grade changes the index, and after it the card is shown front
\* side up with the hint hidden, whatever the two were before the grade.
C18_GradeResetsCardFace ==
    [][ (GradeStep \/ currentCardIndex' # currentCardIndex) =>
          /\ currentCardIndex' # currentCardIndex
          /\ isFlipped' = FALSE
          /\ showHint' = FALSE ]_vars

\* the second card of a session, front side up with its hint hidden, after
\* the grade of the first
C18_Witness ==
    /\ vmode = "LEARN" /\ ~isFinished
    /\ currentCardIndex = 1
    /\ Len(gradeLog) = 1
    /\ ~isFlipped /\ ~showHint

\* C24: from startLearning on, until the next one, reviewed is the index of
\* the current card, hard is at most reviewed, the queue holds the cards of
\* the start list and one more per HARD grade, the index is at most the
\* length of the queue, and while the session is not finished the current
\* card exists and is a card of the list the session was started with.
C24_SessionCountersAgree ==
    SessionStarted =>
        /\ sessionStats.reviewed = currentCardIndex
        /\ sessionStats.hard <= sessionStats.reviewed
        /\ Len(studyQueue) = Len(startList) + sessionStats.hard
        /\ currentCardIndex <= Len(studyQueue)
        /\ ~isFinished =>
              /\ currentCardIndex + 1 \in DOMAIN studyQueue
              /\ \E i \in 1..Len(startList) : studyQueue[currentCardIndex + 1] = startList[i]

\* a session over two cards in which two HARD grades and a passing one have
\* been given, with cards left
C24_Witness ==
    /\ vmode = "LEARN"
    /\ Len(startList) = 2
    /\ sessionStats.hard = 2
    /\ sessionStats.reviewed = 3
    /\ ~isFinished

\* C28: every startLearning step leaves the first card of the new session
\* front side up with the hint hidden, whatever an earlier session left.
C28_SessionStartsFrontUpHintHidden ==
    [][startLearning => ~isFlipped' /\ ~showHint']_vars

----------------------------------------------------------------------------
(* Claims about callDeepSeek *)

AllEqual(seq, v) == \A i \in 1..Len(seq) : seq[i] = v

\* what the retry loop keeps of one call
WithinRetryBudget(c) ==
    /\ c.attempts <= Retries + 1
    /\ Len(c.delays) <= Retries
    /\ AllEqual(c.delays, RetryDelayMs)
    /\ InFlight(c) => c.attempts + c.retryCount = Retries + 1

\* C8: whatever the attempts of one callDeepSeek call come to, the call makes
\* at most 4 HTTP attempts (the first and at most 3 retries), every wait
\* before a retry is the same 2000 ms, and a call that is in flight settles:
\* it resolves or rejects.
C8_BoundedFixedDelaySettles ==
    /\ [](\A r \in ReqIds : WithinRetryBudget(reqs[r]))
    /\ \A r \in ReqIds : (InFlight(reqs[r]) ~> Settled(reqs[r]))

\* a call that was busy on all four attempts, having waited three times
C8_Witness ==
    \E r \in ReqIds :
        /\ reqs[r].pc = "rejected"
        /\ reqs[r].attempts = Retries + 1
        /\ reqs[r].delays = <<RetryDelayMs, RetryDelayMs, RetryDelayMs>>
        /\ reqs[r].last.kind = "busy"

\* C9: a failure that is neither a failed fetch nor a 429/5xx response is
\* never retried: no call waits for a retry after an HTTP error of another
\* status or after an unparseable payload, whatever the error message was.
C9_OtherFailuresNeverRetried ==
    \A r \in ReqIds :
        reqs[r].pc = "waiting" => reqs[r].last.kind \in {"netfail", "busy"}

----------------------------------------------------------------------------
(* Claims about the lookup dispatcher *)

\* C5: however the lookup of a clicked or selected text fails (no key, a
\* failed fetch, a busy service to the last retry, an HTTP error, a payload
\* that cannot be parsed), handleWordClick ends with an entry selected whose
\* word is the text, whose definition says the translation failed and whose
\* type is "Unknown", and with the loading flag cleared.
C5_FailureShowsPlaceholder ==
    (lastSettled # 0 /\ lastLookup.end.pc = "rejected") =>
        /\ selectedWord # NoItem
        /\ selectedWord.word = lastLookup.word
        /\ selectedWord.definition = "Unable to translate. Check connection."
        /\ selectedWord.type = "Unknown"
        /\ loadingWord = <<>>

\* the lookup of a selection across a sentence end has failed on a payload
\* that could not be parsed, and its placeholder is shown
C5_Witness ==
    /\ lastSettled # 0
    /\ lastLookup.end = [pc |-> "rejected", cause |-> "badpayload"]
    /\ lastLookup.word = <<"b", ".", " ", "C">>
    /\ selectedWord.type = "Unknown"
    /\ loadingWord = <<>>

\* C7: when lookups overlap, the entry shown once one of them has settled,
\* and so once all have, is the result or the placeholder of the lookup that
\* settled last, whatever the order they were issued in; the response of an
\* earlier lookup is shown like any other when it comes in last.
C7_LastSettledIsShown ==
    lastSettled # 0 =>
        /\ lookups[lastSettled].pc = "done"
        /\ selectedWord = IF lastLookup.end.pc = "resolved"
                          THEN ResultItem(lastLookup.word, lastLookup.context)
                          ELSE FallbackItem(lastLookup.word, lastLookup.context)
        /\ loadingWord = <<>>

\* two lookups overlapped, the second one settled first, and the popover
\* shows the result of the first one, the last to settle
C7_Witness ==
    /\ lastSettled = 1
    /\ \A l \in LookupIds : lookups[l].pc = "done"
    /\ lastLookup.end.pc = "resolved"
    /\ selectedWord = ResultItem(lastLookup.word, lastLookup.context)
    /\ apiKey

\* a step of one of the events that the selection is said to be dropped by:
\* a release with nothing selected, a press outside the container and the
\* popups, a click on a span, Translate on the selection
ClearingStep ==
    \/ MouseUp
    \/ ClickOutside
    \/ ManualTranslate
    \/ \E w \in ClickTexts : \E collapsed \in BOOLEAN : ClickToken(w, collapsed)

\* C23: after a release of the mouse with nothing selected, after a press
\* outside the container and the popups, and after the start of a lookup by a
\* click on a span or by Translate, no selection is stored.
C23_SelectionClearedByEachEvent ==
    [][PracticeMounted(mode, session) /\ ClearingStep => selection' = <<>>]_vars

\* the last lookup that was issued is still waiting for its response, after
\* the step
LatestStillPending ==
    \E l \in LookupIds :
        /\ lookups'[l].pc = "pending"
        /\ \A m \in LookupIds : m > l => lookups'[m].pc = "idle"

\* a click on a span, or Translate on a selection, whose cleaned text is a
\* key of the vocabulary index
CachedClickStep ==
    \/ \E w \in ClickTexts : \E collapsed \in BOOLEAN :
          CleanText(w) \in VocabKeys(vocabulary) /\ ClickToken(w, collapsed)
    \/ CleanText(selection) \in VocabKeys(vocabulary) /\ ManualTranslate

\* C26: the loading indicator is shown exactly while the lookup of the text
\* clicked last is waiting: it stays when the response of an earlier lookup
\* comes in while the last one is still waiting, and a click that the
\* vocabulary index answers shows its entry, not the indicator of a lookup
\* that is still waiting.
C26_LoadingFollowsLatestClick ==
    [][/\ ((\E l \in LookupIds : \E c \in CallEnds : \E u \in Usages : LookupSettles(l, c, u))
              /\ loadingWord # <<>> /\ LatestStillPending)
          => loadingWord' # <<>>
       /\ (PracticeMounted(mode, session) /\ CachedClickStep)
          => (loadingWord' = <<>> /\ selectedWord' # NoItem)]_vars

----------------------------------------------------------------------------
(* Claims about the failure of generate, analyze and evaluate *)

\* operation o fails in this step
Fails(o) == ops[o].pc # "rejected" /\ ops'[o].pc = "rejected"

\* the component that awaits operation o is mounted: the one that is about
\* to issue it, or the one that issued it and has not been unmounted since
Awaited(o) == ops[o].pc = "idle" \/ ops[o].live

\* C10: whenever a generate, analyze or evaluate operation fails (no key, a
\* transient error to the last retry, a payload that cannot be parsed), an
\* alert is shown, the busy flag of the component awaiting it (isLoading,
\* isSubmitting) is false afterwards, and mode, session, history and result
\* are as they were: no session is started and no evaluation result is set.
C10_FailureAlertsAndLeavesState ==
    [][\A o \in OpIds :
          Fails(o) =>
              /\ alerts' = alerts + 1
              /\ UNCHANGED <<mode, session, history, result>>
              /\ (ops'[o].kind \in SetupKinds /\ Awaited(o)) => ~isLoading'
              /\ (ops'[o].kind = "evaluate" /\ Awaited(o)) => ~isSubmitting']_vars

\* an evaluation has failed after a generation had succeeded: the session is
\* still practised, with no result, and the submit button is free again
C10_Witness ==
    /\ \E o \in OpIds : ops[o].pc = "rejected" /\ ops[o].kind = "evaluate"
    /\ alerts = 1
    /\ mode = "PRACTICE" /\ session # NoSession
    /\ result = 0 /\ ~isSubmitting
    /\ apiKey

\* the generate and analyze requests that are in flight
ContentInFlight == {o \in OpIds : ops[o].pc = "pending" /\ ops[o].kind \in SetupKinds}

\* C27: a generate or analyze response starts a session only while the
\* setup screen is shown: a response that comes in with the vocabulary deck, a
\* review or another practice session on screen changes neither the mode nor
\* the session; and no two content requests are in flight at a time.
C27_ResponseStartsSessionOnSetupOnly ==
    /\ [](Cardinality(ContentInFlight) <= 1)
    /\ [][\A o \in OpIds : \A end \in CallEnds :
              (SetupOpSettles(o, end) /\ mode # "SETUP") => (mode' = mode /\ session' = session)]_vars

\* C29: the mode is PRACTICE or REVIEW exactly when a session is set: a start
\* and a review set both in one step, an exit clears both in one step, and
\* the vocabulary deck is entered and left with no session set.
C29_ModeAndSessionAgree ==
    /\ []((mode \in {"PRACTICE", "REVIEW"}) <=> (session # NoSession))
    /\ [][/\ (session = NoSession /\ session' # NoSession)
                 => (mode \notin {"PRACTICE", "REVIEW"} /\ mode' \in {"PRACTICE", "REVIEW"})
          /\ (session # NoSession /\ session' = NoSession)
                 => (mode \in {"PRACTICE", "REVIEW"} /\ mode' = "SETUP")
          /\ ((mode = "VOCABULARY") # (mode' = "VOCABULARY")) => session = NoSession]_vars

\* a practice session was started, finished and saved, and is now open in
\* review
C29_Witness ==
    /\ mode = "REVIEW"
    /\ history # <<>>
    /\ session = history[1]
    /\ session.evaluation # 0

----------------------------------------------------------------------------
(* Claims about the saved words and the history *)

C30_HistoryHoldsTheEvaluatedText ==
    \A i \in 1..Len(history) :
        /\ history[i].evaluation \in OpIds
        /\ Trim(history[i].userTranslation) # <<>>
        /\ ops[history[i].evaluation].kind = "evaluate"
        /\ ops[history[i].evaluation].pc = "resolved"
        /\ history[i].userTranslation = ops[history[i].evaluation].translation

\* a session saved with the text of its second submission, which differs
\* from the text submitted first
C30_Witness ==
    /\ history # <<>>
    /\ history[1].evaluation = 2
    /\ history[1].userTranslation = <<"b">>
    /\ ops[1].kind = "evaluate"
    /\ ops[1].translation = <<"a">>

\* C19: a click on a span, or Translate on a selection, whose cleaned text is
\* a key of the vocabulary issues no lookup and records no usage, and the
\* entry shown after it is the vocabulary entry of that key, with the entry's
\* own context when it has one and with the sentence found in the text when
\* it has none.
C19_CachedClickIsSynchronous ==
    [][ \A w \in ClickTexts \cup {selection} :
          ( /\ CleanText(w) \in VocabKeys(vocabulary)
            /\ \/ \E collapsed \in BOOLEAN : ClickToken(w, collapsed)
               \/ w = selection /\ ManualTranslate )
          => /\ lookups' = lookups
             /\ loadingWord' = loadingWord
             /\ lookupUsage' = lookupUsage
             /\ reqs' = reqs
             /\ \E i \in 1..Len(vocabulary) :
                    /\ ToLowerCase(vocabulary[i].word) = CleanText(w)
                    /\ selectedWord'.word = vocabulary[i].word
                    /\ selectedWord'.definition = vocabulary[i].definition
                    /\ selectedWord'.type = vocabulary[i].type
                    /\ selectedWord'.context = IF vocabulary[i].context # <<>>
                                               THEN vocabulary[i].context
                                               ELSE findSentence(text, w) ]_vars

\* the popover shows the vocabulary entry of a phrase that has no context of
\* its own, with the sentence of the text, and no lookup has been issued
C19_Witness ==
    /\ popoverPosition
    /\ selectedWord = [VItem(<<"a", " ", "b">>, <<>>) EXCEPT !.context = <<"a", " ", "b", ".">>]
    /\ \A l \in LookupIds : lookups[l] = IdleLookup
    /\ loadingWord = <<>>
    /\ lookupUsage = ZeroUsage

RECURSIVE PiecesFrom(_, _)
\* the pieces the text from position i on falls into when it is cut after
\* every run of terminators: each piece but the last ends with its
\* terminators, and the pieces put together are the text
PiecesFrom(t, i) ==
    IF i > Len(t) THEN <<>>
    ELSE LET stops == {j \in i..Len(t) : t[j] \in Terminators} IN
         IF stops = {} THEN <<SubSeq(t, i, Len(t))>>
         ELSE LET j == CHOOSE x \in stops : \A y \in stops : x <= y
                  after == {k \in j..Len(t) : t[k] \notin Terminators}
                  k == IF after = {} THEN Len(t) + 1
                       ELSE CHOOSE x \in after : \A y \in after : x <= y
              IN  <<SubSeq(t, i, k - 1)>> \o PiecesFrom(t, k)

\* the first piece of the text that contains the token when case is
\* ignored, without the spaces around it; "" when no piece contains it
FirstPieceWith(t, token) ==
    LET pieces == PiecesFrom(t, 1)
        hits == {i \in 1..Len(pieces) : Includes(ToLowerCase(pieces[i]), ToLowerCase(token))}
    IN  IF hits = {} THEN <<>>
        ELSE Trim(pieces[CHOOSE i \in hits : \A j \in hits : i <= j])

\* C20: the context of every lookup is the first piece of the text that
\* contains the clicked text when case is ignored, the pieces being the text
\* cut after its sentence terminators; it is empty only when no piece
\* contains the clicked text.
C20_ContextIsFirstPieceWithToken ==
    /\ \A l \in LookupIds :
           lookups[l].pc = "pending" =>
               lookups[l].context = FirstPieceWith(text, lookups[l].word)
    /\ lastSettled # 0 => lastLookup.context = FirstPieceWith(text, lastLookup.word)

\* C14: the lookup usage of a practice session starts at the initial value
\* of that session; every lookup that settles with a response adds the usage
\* of that response to it, field by field, and nothing else changes it; in a
\* review nothing is added; and Finish & Save stores the usage accumulated so
\* far with the session.
C14_UsageIsSumOfSuccessfulLookups ==
    [][ IF session' # session /\ mode' = "PRACTICE"
        THEN lookupUsage' = session'.lookupUsage
        ELSE IF mode = "PRACTICE" /\ mode' = "SETUP" /\ history' # history
        THEN history'[1].lookupUsage = lookupUsage
        ELSE IF mode = "PRACTICE" /\ mode' = "PRACTICE"
        THEN \E u \in Usages :
                 /\ lookupUsage'.promptTokens = lookupUsage.promptTokens + u.promptTokens
                 /\ lookupUsage'.responseTokens = lookupUsage.responseTokens + u.responseTokens
                 /\ lookupUsage'.totalTokens = lookupUsage.totalTokens + u.totalTokens
        ELSE IF mode = "REVIEW" /\ mode' = "REVIEW"
        THEN lookupUsage' = lookupUsage
        ELSE TRUE ]_vars

\* In InteractiveText every lookup that settles with a response adds the
\* usage of that response to the lookup usage of the view, in whatever order
\* overlapping lookups settle; failures, hits in the vocabulary and the other
\* events leave it as it is, and in a review nothing is added.
UsageAddsPerSettle ==
    [][ IF PracticeMounted(mode, session) /\ ~PracticeMounted(mode', session')
        THEN history'[1].lookupUsage = lookupUsage
        ELSE IF \E l \in LookupIds : lookups[l].pc = "pending" /\ lookups'[l].pc = "done"
        THEN lookupUsage' = IF lastLookup'.end.pc = "resolved" /\ mode = "PRACTICE"
                            THEN AddUsage(lookupUsage, lastLookup'.usage)
                            ELSE lookupUsage
        ELSE lookupUsage' = lookupUsage ]_vars

C11_NoTwoEntriesOfOneWord ==
    \A i, j \in 1..Len(savedWords) :
        i # j => ToLowerCase(savedWords[i].word) # ToLowerCase(savedWords[j].word)

====
